---- MODULE Spec2Model ----
(***************************************************************************)
(* Model of the AI Studio front-end: the generation client                 *)
(* (services/geminiService.ts: generateImage, editImage, generateVideo)    *)
(* and the App / VideoTab view that drives the video workflow (App.tsx).   *)
(*                                                                         *)
(* JavaScript runs one task at a time, so every action below is one task:  *)
(* the synchronous code between two suspension points (await), followed by *)
(* React's commit of the batched state updates and the effect cleanup that *)
(* the commit triggers.                                                    *)
(***************************************************************************)
EXTENDS Integers, Sequences, FiniteSets, TLC

(***************************************************************************)
(* Bounds of the model.                                                    *)
(***************************************************************************)
\* handleGenerate invocations over a run (all VideoTab instances together)
MaxJobs == 2
\* done=false responses the remote service gives to one job
MaxPolls == 2
\* files accepted by the VideoTab file input over a run
MaxFiles == 1
\* pieces of text a prompt is put together from
MaxPieces == 3

(***************************************************************************)
(* JavaScript values as they arrive in the JSON of the remote service.     *)
(* Every value has the same three fields so that values of different       *)
(* JavaScript types can be compared.                                       *)
(***************************************************************************)
Undefined == [t |-> "undefined", s |-> "", fields |-> <<>>]
Str(x) == [t |-> "string", s |-> x, fields |-> <<>>]
Num(n) == [t |-> "number", s |-> ToString(n), fields |-> <<>>]
Obj(fs) == [t |-> "object", s |-> "", fields |-> fs]
Field(k, v) == [k |-> k, v |-> v]
\* an array is kept as its items, keyed by their index
Arr(items) ==
  [t |-> "array", s |-> "",
   fields |-> [i \in 1..Len(items) |-> Field(ToString(i - 1), items[i])]]

\* ToBoolean of a value, as used by if (...) and &&
Truthy(v) ==
  CASE v.t = "undefined" -> FALSE
    [] v.t = "string" -> v.s # ""
    [] v.t = "number" -> v.s # "0"
    [] OTHER -> TRUE

\* typeof v === 'string'
IsString(v) == v.t = "string"

\* v.k : property read; a string or a number has no own property k
Get(v, k) ==
  IF v.t = "object" /\ \E i \in 1..Len(v.fields) : v.fields[i].k = k
  THEN LET i == CHOOSE n \in 1..Len(v.fields) : v.fields[n].k = k
       IN v.fields[i].v
  ELSE Undefined

\* v.length of an array
Length(v) == Len(v.fields)

\* v[i] : an index past the end reads undefined
Index(v, i) ==
  IF v.t = "array" /\ i < Len(v.fields) THEN v.fields[i + 1].v ELSE Undefined

\* v.k throws a TypeError when v is undefined
CanRead(v) == v.t # "undefined"

\* JSON.stringify(v)
RECURSIVE JSONStringify(_)
RECURSIVE JSONMembers(_, _)
RECURSIVE JSONItems(_, _)
JSONItems(fs, i) ==
  IF i > Len(fs) THEN ""
  ELSE (IF i > 1 THEN "," ELSE "") \o JSONStringify(fs[i].v)
         \o JSONItems(fs, i + 1)
JSONMembers(fs, i) ==
  IF i > Len(fs) THEN ""
  ELSE (IF i > 1 THEN "," ELSE "")
         \o "\"" \o fs[i].k \o "\":" \o JSONStringify(fs[i].v)
         \o JSONMembers(fs, i + 1)
JSONStringify(v) ==
  CASE v.t = "string" -> "\"" \o v.s \o "\""
    [] v.t = "number" -> v.s
    [] v.t = "object" -> "{" \o JSONMembers(v.fields, 1) \o "}"
    [] v.t = "array" -> "[" \o JSONItems(v.fields, 1) \o "]"
    [] OTHER -> "undefined"

\* String(v), the coercion a template literal or the Error constructor applies
ToJSString(v) ==
  CASE v.t = "string" -> v.s
    [] v.t = "number" -> v.s
    [] v.t = "object" -> "[object Object]"
    [] v.t = "array" -> JSONItems(v.fields, 1)
    [] OTHER -> "undefined"

(***************************************************************************)
(* A thrown value: an Error instance or anything else, with its message.   *)
(***************************************************************************)
NewError(msg) == [isError |-> TRUE, message |-> msg]

\* faults that a remote call (SDK call or fetch) can throw
RawFaults ==
  { [isError |-> TRUE, message |-> "ApiError: 429 quota exceeded for project 1234"],
    [isError |-> FALSE, message |-> "socket hang up"] }

RawFaultMessages == { f.message : f \in RawFaults }

NoThrown == [isError |-> FALSE, message |-> ""]
TypeErrorThrown == NewError("TypeError: Cannot read properties of undefined")

\* what a block of code ends with: a returned value or a thrown one
Return(v) == [kind |-> "return", value |-> v, error |-> NoThrown]
Throw(e) == [kind |-> "throw", value |-> Undefined, error |-> e]
NoOutcome == [kind |-> "none", value |-> Undefined, error |-> NoThrown]

(***************************************************************************)
(* generateImage (geminiService.ts 10-31)                                  *)
(***************************************************************************)
AspectRatios == {"1:1", "16:9", "9:16", "4:3", "3:4"}
ImagePrompts == {"a cat", "a dog"}

GeneratedImage(image) == Obj(<<Field("image", image)>>)
ImageBytes(b) == Obj(<<Field("imageBytes", Str(b))>>)

\* responses of the image-synthesis endpoint
ImageResponses ==
  { Obj(<<>>),
    Obj(<<Field("generatedImages", Arr(<<>>))>>),
    Obj(<<Field("generatedImages", Arr(<<Obj(<<Field("raiFilteredReason", Str("blocked"))>>)>>))>>),
    Obj(<<Field("generatedImages", Arr(<<GeneratedImage(Obj(<<Field("gcsUri", Str("gs://b/o"))>>))>>))>>),
    Obj(<<Field("generatedImages", Arr(<<GeneratedImage(ImageBytes(""))>>))>>),
    Obj(<<Field("generatedImages", Arr(<<GeneratedImage(ImageBytes("iVBORw0KGgo="))>>))>>),
    Obj(<<Field("generatedImages",
                Arr(<<GeneratedImage(ImageBytes("iVBORw0KGgo=")),
                      GeneratedImage(ImageBytes("R0lGODlh"))>>))>>) }

\* lines 22-25: the body of the try block once the response has arrived
GenerateImageTry(response) ==
  LET generatedImages == Get(response, "generatedImages")
  IN IF Truthy(generatedImages) /\ Length(generatedImages) > 0
     THEN LET image == Get(Index(generatedImages, 0), "image")
          IN IF CanRead(image)
             THEN Return(Get(image, "imageBytes"))
             ELSE Throw(TypeErrorThrown)
     ELSE Throw(NewError("No image was generated."))

\* lines 27-30: the catch block
GenerateImageCatch(try) ==
  IF try.kind = "throw"
  THEN Throw(NewError("Failed to generate image. Please check the console for details."))
  ELSE try

(***************************************************************************)
(* editImage (geminiService.ts 33-68)                                      *)
(***************************************************************************)
EditPrompts == {"add a hat"}
EditMimeTypes == {"image/png", "image/jpeg"}

TextPart(x) == Obj(<<Field("text", Str(x))>>)
InlinePart(m, d) ==
  Obj(<<Field("inlineData", Obj(<<Field("mimeType", Str(m)), Field("data", Str(d))>>))>>)
Candidate(content) == Obj(<<Field("content", content)>>)
Content(parts) == Obj(<<Field("parts", parts)>>)

\* responses of the content-edit endpoint
EditResponses ==
  { Obj(<<>>),
    Obj(<<Field("candidates", Arr(<<>>))>>),
    Obj(<<Field("candidates", Arr(<<Obj(<<Field("finishReason", Str("SAFETY"))>>)>>))>>),
    Obj(<<Field("candidates", Arr(<<Candidate(Obj(<<Field("role", Str("model"))>>))>>))>>),
    Obj(<<Field("candidates", Arr(<<Candidate(Content(Arr(<<>>)))>>))>>),
    Obj(<<Field("candidates", Arr(<<Candidate(Content(Arr(<<TextPart("done")>>)))>>))>>),
    Obj(<<Field("candidates",
                Arr(<<Candidate(Content(Arr(<<InlinePart("image/png", "iVBORw0KGgo="),
                                              TextPart("done")>>)))>>))>>),
    Obj(<<Field("candidates",
                Arr(<<Candidate(Content(Arr(<<TextPart("first"),
                                              InlinePart("image/png", "iVBORw0KGgo="),
                                              TextPart("last")>>))),
                      Candidate(Content(Arr(<<TextPart("other")>>)))>>))>>) }

EditImageTryFirstPartOnly(response) ==
  LET candidates == Get(response, "candidates")
  IN IF ~Truthy(candidates)
     THEN Throw(NewError("No edited content was returned."))
     ELSE LET first == Index(candidates, 0)
          IN IF ~CanRead(first) THEN Throw(TypeErrorThrown)
             ELSE LET content == Get(first, "content")
                  IN IF ~CanRead(content) THEN Throw(TypeErrorThrown)
                     ELSE IF Truthy(Get(content, "parts"))
                          THEN Return(Arr(<<Index(Get(content, "parts"), 0)>>))
                          ELSE Throw(NewError("No edited content was returned."))

\* lines 59-62: the body of the try block once the response has arrived
EditImageTry(response) ==
  LET candidates == Get(response, "candidates")
  IN IF ~Truthy(candidates)
     THEN Throw(NewError("No edited content was returned."))
     ELSE LET first == Index(candidates, 0)
          IN IF ~CanRead(first) THEN Throw(TypeErrorThrown)
             ELSE LET content == Get(first, "content")
                  IN IF ~CanRead(content) THEN Throw(TypeErrorThrown)
                     ELSE IF Truthy(Get(content, "parts"))
                          THEN Return(Get(content, "parts"))
                          ELSE Throw(NewError("No edited content was returned."))

\* lines 64-67: the catch block
EditImageCatch(try) ==
  IF try.kind = "throw"
  THEN Throw(NewError("Failed to edit image. Please check the console for details."))
  ELSE try

(***************************************************************************)
(* generateVideo (geminiService.ts 79-143): the remote side                *)
(***************************************************************************)
ApiKey == "KEY"
VideoUris == {"https://files/X?alt=media", "https://files/Y?alt=media"}
VideoOf(uri) == Obj(<<Field("video", Obj(<<Field("uri", Str(uri))>>))>>)

\* the response field of a finished operation
VideoResults ==
  { Undefined,
    Obj(<<>>),
    Obj(<<Field("generatedVideos", Arr(<<>>))>>),
    Obj(<<Field("generatedVideos", Arr(<<Obj(<<Field("video", Obj(<<>>))>>)>>))>>),
    Obj(<<Field("generatedVideos", Arr(<<VideoOf("https://files/X?alt=media")>>))>>),
    Obj(<<Field("generatedVideos",
                Arr(<<VideoOf("https://files/Y?alt=media"),
                      VideoOf("https://files/X?alt=media")>>))>>) }

\* the error field of a failed operation
ErrorShapes ==
  { Obj(<<Field("message", Str("boom"))>>),
    Obj(<<Field("code", Num(3)), Field("message", Str("boom"))>>),
    Str("boom"),
    Obj(<<Field("weird", Num(1))>>),
    Obj(<<Field("message", Str(""))>>),
    Obj(<<Field("message", Obj(<<Field("detail", Str("boom"))>>))>>) }

\* an operation handle; ver numbers the responses the remote gave to the job
Operation(ver, done, error, response) ==
  [ver |-> ver, done |-> done, error |-> error, response |-> response]
NoOperation == Operation(-1, FALSE, Undefined, Undefined)

\* what the remote can put in a done=true handle
TerminalBodies ==
  { [error |-> e, response |-> Undefined] : e \in ErrorShapes }
    \cup { [error |-> Undefined, response |-> r] : r \in VideoResults }
    \cup { [error |-> Obj(<<Field("message", Str("boom"))>>),
            response |-> Obj(<<Field("generatedVideos",
                                     Arr(<<VideoOf("https://files/X?alt=media")>>))>>)] }

\* transport status texts of a failed binary fetch
StatusTexts == {"Forbidden", "Not Found"}

\* the bytes the remote stores at a url
StoredAt(url) == "bytes@" \o url

(***************************************************************************)
(* State                                                                   *)
(***************************************************************************)
VARIABLES
  activeTab,    \* App.activeTab
  instance,     \* the number of the VideoTab instance mounted last
  prompt,       \* VideoTab state, as a sequence of characters
  file,         \* VideoTab state: the type of the selected file, or NoFile
  preview,      \* VideoTab state: an object url id, 0 for null
  videoUrl,     \* VideoTab state: an object url id, 0 for null
  isLoading,    \* VideoTab state
  error,        \* VideoTab state: a message, or NULL
  effect,       \* the videoUrl and preview captured by the cleanup of the last run effect
  download,     \* the download the VideoTab started in the last step
  jobs,         \* the handleGenerate invocations and their generateVideo calls
  remote,       \* per job in flight, what the remote service has answered
  settled,      \* the generateVideo call that returned or threw in the last step
  objectUrls,   \* the object urls created so far, with their release counts
  imageCall,    \* a generateImage call
  editCall,     \* an editImage call
  generateTab,  \* the state of the GenerateTab
  editTab       \* the state of the EditTab

panelVars == <<prompt, file, preview, videoUrl, isLoading, error, effect>>
videoVars == <<activeTab, instance, panelVars, jobs, remote, objectUrls, settled, download>>
tabVars == <<generateTab, editTab>>
clientVars == <<imageCall, editCall, tabVars>>
vars == <<videoVars, clientVars>>
\* what an action of the GenerateTab or the EditTab leaves alone
backgroundVars == <<activeTab, instance, panelVars, jobs, remote, objectUrls>>

NULL == "<null>"
NoFile == "<none>"
Tabs == {"generate", "edit", "video"}
FileTypes == {"image/jpeg", "image/png", "image/webp", "text/plain"}

AcceptedTypesAny == FileTypes

\* App.tsx 129 and 307: the types the file inputs accept
AcceptedTypes == {"image/jpeg", "image/png", "image/webp"}

(***************************************************************************)
(* One record per handleGenerate invocation (App.tsx 149-178) with the     *)
(* generateVideo call it makes (geminiService.ts 79-143)                   *)
(***************************************************************************)
NewJob(owner, hasImage) ==
  [owner |-> owner,           \* the VideoTab instance whose handler this is
   pc |-> IF hasImage THEN "encoding" ELSE "submitting",
   hasImage |-> hasImage,
   mimeType |-> NoFile,       \* the type of the file that is encoded and uploaded
   operation |-> NoOperation, \* the local variable operation
   polls |-> 0,               \* getVideosOperation calls issued
   waits |-> 0,               \* 10 second waits completed
   outstanding |-> IF hasImage THEN 0 ELSE 1, \* remote requests not yet answered
   carried |-> -1,            \* ver of the handle the last poll request carried
   fetches |-> 0,             \* binary fetches issued
   status |-> "",             \* the status text of a binary fetch that failed
   logged |-> 0,              \* console.error calls
   url |-> 0,                 \* the object url generateVideo returned
   message |-> "",            \* the message of the Error generateVideo threw
   typed |-> FALSE,           \* the thrown value is an Error instance
   fault |-> ""]              \* the message of the raw fault a remote call threw

NewRemote == [sent |-> 0, falses |-> 0, last |-> NoOperation]

InFlight(jb) == jb.pc \in {"encoding", "submitting", "waiting", "polling", "fetching"}

\* a finished invocation: its local variables are gone, the instance it
\* belongs to remains
Finished(jb) ==
  [NewJob(jb.owner, FALSE) EXCEPT !.pc = "finished", !.outstanding = 0]

\* the record of a generateVideo call at the moment it returned or threw,
\* with what the remote had answered to it
Settled(j, jb, rm) == [job |-> j, call |-> jb, remote |-> rm]
NoSettled == Settled(0, NewJob(0, FALSE), NewRemote)

(***************************************************************************)
(* Object urls (URL.createObjectURL / URL.revokeObjectURL)                 *)
(***************************************************************************)
\* URL.createObjectURL: a fresh blob: url; job is the generateVideo call that made it
CreateObjectURL(urls, kind, content, job) ==
  Append(urls, [scheme |-> "blob:", kind |-> kind, content |-> content,
                job |-> job, revoked |-> 0])

\* URL.revokeObjectURL(u)
RevokeObjectURL(urls, u) ==
  [urls EXCEPT ![u].revoked = @ + 1]

\* App.tsx 120-123: the cleanup of the effect, over the values it captured
EffectCleanup(urls, eff) ==
  LET afterVideo ==
        IF eff.videoUrl # 0 /\ urls[eff.videoUrl].scheme = "blob:"
        THEN RevokeObjectURL(urls, eff.videoUrl) ELSE urls
  IN IF eff.preview # 0 THEN RevokeObjectURL(afterVideo, eff.preview) ELSE afterVideo

\* App.tsx 124: the dependency list of the effect
EffectDeps(v, p) == <<v, p>>

\* the commit of a render with videoUrl v and preview p, over the urls as the
\* handler left them: when a dependency changed, the old cleanup runs and
\* the effect is set up again
Commit(v, p, urls) ==
  /\ videoUrl' = v
  /\ preview' = p
  /\ IF EffectDeps(v, p) # EffectDeps(effect.videoUrl, effect.preview)
     THEN /\ objectUrls' = EffectCleanup(urls, effect)
          /\ effect' = [videoUrl |-> v, preview |-> p]
     ELSE /\ objectUrls' = urls
          /\ effect' = effect

(***************************************************************************)
(* Text of the prompt: a sequence of one-character strings                 *)
(***************************************************************************)
Prompts == { <<>>, <<" ", "A", " ", " ", "c", "!">> }

UpperCase == <<"A","B","C","D","E","F","G","H","I","J","K","L","M",
               "N","O","P","Q","R","S","T","U","V","W","X","Y","Z">>
LowerCase == <<"a","b","c","d","e","f","g","h","i","j","k","l","m",
               "n","o","p","q","r","s","t","u","v","w","x","y","z">>

\* \s of a regular expression, and the white space trim() removes
IsSpace(c) == c \in {" ", "\t", "\n", "\r"}

\* String.prototype.trim
RECURSIVE TrimStart(_)
TrimStart(s) == IF s # <<>> /\ IsSpace(Head(s)) THEN TrimStart(Tail(s)) ELSE s
RECURSIVE TrimEnd(_)
TrimEnd(s) ==
  IF s # <<>> /\ IsSpace(s[Len(s)]) THEN TrimEnd(SubSeq(s, 1, Len(s) - 1)) ELSE s
Trim(s) == TrimEnd(TrimStart(s))

\* String.prototype.toLowerCase
ToLowerCase(s) ==
  [i \in 1..Len(s) |->
     IF \E n \in 1..26 : UpperCase[n] = s[i]
     THEN LowerCase[CHOOSE n \in 1..26 : UpperCase[n] = s[i]]
     ELSE s[i]]

\* s.replace(/\s+/g, '-')
RECURSIVE ReplaceSpaceRuns(_)
ReplaceSpaceRuns(s) ==
  IF s = <<>> THEN <<>>
  ELSE IF IsSpace(Head(s))
       THEN <<"-">> \o ReplaceSpaceRuns(TrimStart(s))
       ELSE <<Head(s)>> \o ReplaceSpaceRuns(Tail(s))

SliceWhole(s, n) == s

\* s.slice(0, n)
Slice(s, n) == SubSeq(s, 1, IF Len(s) < n THEN Len(s) ELSE n)

SlugLength == 50
GeneratedVideo == <<"g","e","n","e","r","a","t","e","d","-","v","i","d","e","o">>

\* App.tsx 186: the base name of the downloaded file
FileName(p, placeholder) ==
  LET slug == Slice(ReplaceSpaceRuns(ToLowerCase(Trim(p))), SlugLength)
  IN IF slug # <<>> THEN slug ELSE placeholder

NoDownload == [href |-> 0, uri |-> "", name |-> <<>>]

\* a step in which no generateVideo call ends and no download starts
Quiet ==
  /\ settled' = NoSettled
  /\ download' = NoDownload

(***************************************************************************)
(* A call of generateImage or editImage, and the state of the two panels   *)
(* that make them: GenerateTab (part_000) and EditTab (App.tsx 296-479)    *)
(***************************************************************************)
IdleCall ==
  [pc |-> "idle",            \* idle, pending or done
   prompt |-> "",            \* the arguments of the call
   option |-> "",
   calls |-> 0,              \* remote requests issued
   logged |-> 0,             \* console.error calls
   response |-> Undefined,   \* what the remote answered
   fault |-> "",             \* the message of the raw fault the remote call threw
   outcome |-> NoOutcome]    \* what the call returned or threw

\* geminiService.ts 10-20 and 33-57: the call has issued its one request
IssuedCall(p, option) ==
  [IdleCall EXCEPT !.pc = "pending", !.prompt = p, !.option = option, !.calls = 1]

\* geminiService.ts 12-30: generateImage once its request is answered
ImageCallAnswered(call, response) ==
  LET try == GenerateImageTry(response)
  IN [call EXCEPT !.pc = "done",
                  !.response = response,
                  !.logged = @ + (IF try.kind = "throw" THEN 1 ELSE 0),
                  !.outcome = GenerateImageCatch(try)]

ImageCallRetried(call, fault) ==
  [call EXCEPT !.fault = fault.message, !.logged = @ + 1, !.calls = @ + 1]

\* geminiService.ts 12 with 27-30: generateImage once its request has thrown
ImageCallFaulted(call, fault) ==
  [call EXCEPT !.pc = "done",
               !.fault = fault.message,
               !.logged = @ + 1,
               !.outcome = GenerateImageCatch(Throw(fault))]

\* geminiService.ts 39-67: editImage once its request is answered
EditCallAnswered(call, response) ==
  LET try == EditImageTry(response)
  IN [call EXCEPT !.pc = "done",
                  !.response = response,
                  !.logged = @ + (IF try.kind = "throw" THEN 1 ELSE 0),
                  !.outcome = EditImageCatch(try)]

\* geminiService.ts 39 with 64-67: editImage once its request has thrown
EditCallFaulted(call, fault) ==
  [call EXCEPT !.pc = "done",
               !.fault = fault.message,
               !.logged = @ + 1,
               !.outcome = EditImageCatch(Throw(fault))]

\* part_000 9-13: the initial state of the GenerateTab
NewGenerateTab ==
  [prompt |-> <<>>, aspectRatio |-> "1:1", generatedImage |-> NULL,
   isLoading |-> FALSE, error |-> NULL]

\* null, the value of resultParts before there is a result
NoParts == Undefined

\* App.tsx 297-302: the initial state of the EditTab; pc is the position of
\* its handleEdit: idle, encoding (in fileToBase64) or calling (in editImage)
NewEditTab ==
  [file |-> NoFile, preview |-> NoFile, prompt |-> <<>>, resultParts |-> NoParts,
   isLoading |-> FALSE, error |-> NULL, pc |-> "idle"]

(***************************************************************************)
(* App (App.tsx 9-70) and VideoTab (App.tsx 92-288)                        *)
(***************************************************************************)
\* the VideoTab instance i is the one on screen
Mounted(i) == activeTab = "video" /\ instance = i

\* useState initial values, App.tsx 93-100
ResetPanel ==
  /\ prompt' = <<>>
  /\ file' = NoFile
  /\ preview' = 0
  /\ videoUrl' = 0
  /\ isLoading' = FALSE
  /\ error' = NULL
  /\ effect' = [videoUrl |-> 0, preview |-> 0]

\* the VideoTab instance i has called handleGenerate
HasJobs(i) == \E j \in 1..Len(jobs) : jobs[j].owner = i

\* App.tsx 27 with 12-23: a tab button; leaving the video tab unmounts the
\* VideoTab (its effect cleanup runs), entering it mounts a fresh one. Two
\* instances that never called handleGenerate cannot be told apart, so the
\* instance number advances only past an instance that did. The GenerateTab
\* and the EditTab that is left loses its state, and the call it has pending
\* ends unseen: every setter of an unmounted component is without effect
SetActiveTab(tab) ==
  /\ tab # activeTab
  /\ activeTab' = tab
  /\ IF activeTab = "video"
     THEN /\ objectUrls' = EffectCleanup(objectUrls, effect)
          /\ ResetPanel
          /\ UNCHANGED instance
     ELSE IF tab = "video"
          THEN /\ instance' = IF instance = 0 \/ HasJobs(instance)
                              THEN instance + 1 ELSE instance
               /\ UNCHANGED <<panelVars, objectUrls>>
          ELSE UNCHANGED <<instance, panelVars, objectUrls>>
  /\ Quiet
  /\ generateTab' = NewGenerateTab
  /\ editTab' = NewEditTab
  /\ imageCall' = IdleCall
  /\ editCall' = IdleCall
  /\ UNCHANGED <<jobs, remote>>

\* App.tsx 207 with 210: typing in the prompt box, disabled while loading
SetPrompt(p) ==
  /\ activeTab = "video"
  /\ ~isLoading
  /\ p # prompt
  /\ prompt' = p
  /\ Quiet
  /\ UNCHANGED <<activeTab, instance, file, preview, videoUrl, isLoading, error,
                 effect, jobs, remote, objectUrls, clientVars>>

\* the previews created so far
Previews == { u \in 1..Len(objectUrls) : objectUrls[u].kind = "preview" }

\* App.tsx 126-139 with 235: the file input, disabled while loading
HandleFileChange(type) ==
  /\ activeTab = "video"
  /\ ~isLoading
  /\ IF type \notin AcceptedTypes
     THEN /\ error' = "Please select a valid image file (JPEG, PNG, WebP)."
          /\ UNCHANGED <<file, preview, videoUrl, effect, objectUrls>>
     ELSE /\ Cardinality(Previews) < MaxFiles
          /\ error' = NULL
          /\ file' = type
          /\ LET revoked == IF preview # 0 THEN RevokeObjectURL(objectUrls, preview)
                            ELSE objectUrls
                 created == CreateObjectURL(revoked, "preview", "file", 0)
             IN Commit(0, Len(created), created)
  /\ Quiet
  /\ UNCHANGED <<activeTab, instance, prompt, isLoading, jobs, remote,
                 clientVars>>

\* App.tsx 141-147 with 236-241: the clear button, shown while there is a preview
HandleClearImage ==
  /\ activeTab = "video"
  /\ preview # 0
  /\ file' = NoFile
  /\ Commit(videoUrl, 0, RevokeObjectURL(objectUrls, preview))
  /\ Quiet
  /\ UNCHANGED <<activeTab, instance, prompt, isLoading, error, jobs,
                 remote, clientVars>>

\* App.tsx 180-195 with 269-276: the download button, shown with the video
HandleDownload ==
  /\ activeTab = "video"
  /\ ~isLoading
  /\ videoUrl # 0
  /\ download' = [href |-> videoUrl, uri |-> "",
                  name |-> FileName(prompt, GeneratedVideo) \o <<".", "m", "p", "4">>]
  /\ settled' = NoSettled
  /\ UNCHANGED <<activeTab, instance, prompt, file, preview, videoUrl, isLoading,
                 error, effect, jobs, remote, objectUrls, clientVars>>

(***************************************************************************)
(* handleGenerate (App.tsx 149-178) and generateVideo                      *)
(* (geminiService.ts 79-143), one record per handleGenerate invocation     *)
(***************************************************************************)
\* the handles the remote may answer job j with next
NextHandles(j) ==
  (IF remote[j].falses < MaxPolls
   THEN {Operation(remote[j].sent, FALSE, Undefined, Undefined)} ELSE {})
    \cup { Operation(remote[j].sent, TRUE, b.error, b.response) : b \in TerminalBodies }

\* the record of the remote once it has answered with op
Answered(rm, op) ==
  [sent |-> rm.sent + 1, falses |-> rm.falses + (IF op.done THEN 0 ELSE 1), last |-> op]

\* the remote records of the jobs, job j having record rm after this step
RemoteAfter(j, rm) ==
  remote' = [remote EXCEPT ![j] = IF InFlight(jobs'[j]) THEN rm ELSE NewRemote]

GenerateDisabledOnBlankOnly == Trim(prompt) = <<>>

\* App.tsx 252: the disabled attribute of the generate button
GenerateDisabled == isLoading \/ Trim(prompt) = <<>>

HandlerCatchWithoutFinally(owner, thrown) ==
  IF Mounted(owner)
  THEN /\ error' = IF thrown.message # "" THEN thrown.message
                   ELSE "An unexpected error occurred."
       /\ UNCHANGED <<prompt, file, preview, videoUrl, isLoading, effect>>
  ELSE UNCHANGED panelVars

\* App.tsx 173-177: catch and finally of handleGenerate, for the instance owner
HandlerCatch(owner, thrown) ==
  IF Mounted(owner)
  THEN /\ error' = IF thrown.message # "" THEN thrown.message
                   ELSE "An unexpected error occurred."
       /\ isLoading' = FALSE
       /\ UNCHANGED <<prompt, file, preview, videoUrl, effect>>
  ELSE UNCHANGED panelVars

\* App.tsx 171 and 175-177: setVideoUrl(objectUrl) and finally, for the instance owner
HandlerThen(owner, url, urls) ==
  IF Mounted(owner)
  THEN /\ Commit(url, preview, urls)
       /\ isLoading' = FALSE
       /\ UNCHANGED <<prompt, file, error>>
  ELSE /\ objectUrls' = urls
       /\ UNCHANGED panelVars

ErrorMessageCoerced(err) ==
  LET message == Get(err, "message")
  IN IF Truthy(message) /\ IsString(message) THEN message.s ELSE ToJSString(err)

\* geminiService.ts 109-118: the message taken from operation.error
ErrorMessage(err) ==
  LET message == Get(err, "message")
  IN IF Truthy(message) /\ IsString(message) THEN message.s
     ELSE IF IsString(err) THEN err.s ELSE JSONStringify(err)

DownloadLinkDefaulted(operation) ==
  LET uri == Get(Get(Index(Get(operation.response, "generatedVideos"), 0), "video"), "uri")
  IN IF Truthy(uri) THEN uri ELSE Str("https://files/X?alt=media")

\* geminiService.ts 122
DownloadLink(operation) ==
  Get(Get(Index(Get(operation.response, "generatedVideos"), 0), "video"), "uri")

\* geminiService.ts 127: the url of the binary fetch
FetchUrl(operation) == DownloadLink(operation).s \o "&key=" \o ApiKey

\* geminiService.ts 136-142: the catch block
VideoCatch(thrown) ==
  IF thrown.isError THEN thrown
  ELSE NewError("An unknown error occurred while generating the video.")

\* generateVideo throws: the catch block runs and the handler receives the failure
Reject(j, jb, rm, thrown) ==
  LET final == VideoCatch(thrown)
      call == [jb EXCEPT !.pc = "rejected",
                         !.outstanding = 0,
                         !.logged = @ + 1,
                         !.message = final.message,
                         !.typed = final.isError]
  IN /\ jobs' = [jobs EXCEPT ![j] = Finished(call)]
     /\ settled' = Settled(j, call, rm)
     /\ download' = NoDownload
     /\ HandlerCatch(jb.owner, final)
     /\ UNCHANGED objectUrls

ShouldPollCapped(operation) == ~operation.done /\ operation.ver < 1

\* geminiService.ts 102: the loop condition
ShouldPoll(operation) == ~operation.done

\* geminiService.ts 102-135: what follows a response of submit or poll, up to
\* the next suspension point
AfterAwait(j, jb, rm) ==
  IF ShouldPoll(jb.operation)
  THEN /\ jobs' = [jobs EXCEPT ![j] = [jb EXCEPT !.pc = "waiting"]]
       /\ Quiet
       /\ UNCHANGED <<panelVars, objectUrls>>
  ELSE IF Truthy(jb.operation.error)
       THEN Reject(j, [jb EXCEPT !.logged = @ + 1], rm,
                   NewError(ErrorMessage(jb.operation.error)))
       ELSE IF Truthy(DownloadLink(jb.operation))
            THEN /\ jobs' = [jobs EXCEPT ![j] = [jb EXCEPT !.pc = "fetching",
                                                          !.fetches = @ + 1,
                                                          !.outstanding = @ + 1]]
                 /\ Quiet
                 /\ UNCHANGED <<panelVars, objectUrls>>
            ELSE Reject(j, jb, rm,
                        NewError("Video generation completed, but no download link was found."))

\* App.tsx 149-170: handleGenerate up to its first await: of fileToBase64
\* when a file is selected, else of generateVideos
HandleGenerate ==
  /\ activeTab = "video"
  /\ IF Trim(prompt) = <<>>
     THEN /\ error' = "Please enter a prompt to generate a video."
          /\ UNCHANGED <<prompt, file, preview, videoUrl, isLoading, effect,
                         jobs, remote, objectUrls>>
     ELSE /\ Len(jobs) < MaxJobs
          /\ isLoading' = TRUE
          /\ error' = NULL
          /\ Commit(0, preview, objectUrls)
          /\ jobs' = Append(jobs, [NewJob(instance, file # NoFile) EXCEPT !.mimeType = file])
          /\ remote' = Append(remote, NewRemote)
          /\ UNCHANGED <<prompt, file>>
  /\ Quiet
  /\ UNCHANGED <<activeTab, instance, clientVars>>

\* App.tsx 252: a click on the generate button
ClickGenerate == ~GenerateDisabled /\ HandleGenerate

\* handleGenerate called while the panel is not loading, whatever the prompt
InvokeHandleGenerate == ~isLoading /\ HandleGenerate

\* App.tsx 162-170: fileToBase64 resolved, generateVideo is called and
\* issues the submit request (geminiService.ts 84-100)
EncodeDone(j) ==
  /\ jobs[j].pc = "encoding"
  /\ jobs' = [jobs EXCEPT ![j].pc = "submitting", ![j].outstanding = @ + 1]
  /\ Quiet
  /\ UNCHANGED <<activeTab, instance, panelVars, remote, objectUrls, clientVars>>

\* the failure of the media encoder (utils/fileUtils, fileToBase64)
ReadError == NewError("Failed to read file.")

\* App.tsx 162 with 173-177: fileToBase64 rejected with a ReadError
EncodeFails(j) ==
  /\ jobs[j].pc = "encoding"
  /\ jobs' = [jobs EXCEPT ![j] = Finished([@ EXCEPT !.pc = "aborted"])]
  /\ HandlerCatch(jobs[j].owner, ReadError)
  /\ Quiet
  /\ UNCHANGED <<activeTab, instance, remote, objectUrls, clientVars>>

\* geminiService.ts 100: the submit request is answered
SubmitResponse(j, op) ==
  /\ jobs[j].pc = "submitting"
  /\ op \in NextHandles(j)
  /\ AfterAwait(j, [jobs[j] EXCEPT !.operation = op, !.outstanding = @ - 1],
                Answered(remote[j], op))
  /\ RemoteAfter(j, Answered(remote[j], op))
  /\ UNCHANGED <<activeTab, instance, clientVars>>

\* geminiService.ts 103-104: the 10 second timer fires and the poll is issued
\* with the current value of operation
PollWithoutWait(jb) ==
  [jb EXCEPT !.pc = "polling",
             !.polls = @ + 1,
             !.carried = jb.operation.ver,
             !.outstanding = @ + 1]

\* geminiService.ts 103-104: the wait is over and the poll goes out
PollAfterWait(jb) ==
  [jb EXCEPT !.pc = "polling",
             !.waits = @ + 1,
             !.polls = @ + 1,
             !.carried = jb.operation.ver,
             !.outstanding = @ + 1]

TimerFires(j) ==
  /\ jobs[j].pc = "waiting"
  /\ jobs' = [jobs EXCEPT ![j] = PollAfterWait(@)]
  /\ Quiet
  /\ UNCHANGED <<activeTab, instance, panelVars, remote, objectUrls, clientVars>>

NextOperationStale(old, op) == old

\* geminiService.ts 104: the assignment of the poll response
NextOperation(old, op) == op

\* geminiService.ts 104: the poll request is answered
PollResponse(j, op) ==
  /\ jobs[j].pc = "polling"
  /\ op \in NextHandles(j)
  /\ AfterAwait(j, [jobs[j] EXCEPT !.operation = NextOperation(@, op),
                                   !.outstanding = @ - 1],
                Answered(remote[j], op))
  /\ RemoteAfter(j, Answered(remote[j], op))
  /\ UNCHANGED <<activeTab, instance, clientVars>>

\* geminiService.ts 100, 104, 127 with 136-142: a remote call throws
RemoteThrows(j, fault) ==
  /\ jobs[j].pc \in {"submitting", "polling", "fetching"}
  /\ Reject(j, [jobs[j] EXCEPT !.fault = fault.message], remote[j], fault)
  /\ RemoteAfter(j, remote[j])
  /\ UNCHANGED <<activeTab, instance, clientVars>>

FetchErrorMessageFixed(statusText) == "Failed to fetch video."

\* geminiService.ts 129: the message of the Error thrown for a failed fetch
FetchErrorMessage(statusText) == "Failed to fetch video: " \o statusText

\* geminiService.ts 127-130 with 136-142: the fetch answers with a
\* non-success status
FetchFails(j, statusText) ==
  /\ jobs[j].pc = "fetching"
  /\ Reject(j, [jobs[j] EXCEPT !.status = statusText], remote[j],
            NewError(FetchErrorMessage(statusText)))
  /\ RemoteAfter(j, remote[j])
  /\ UNCHANGED <<activeTab, instance, clientVars>>

\* geminiService.ts 127-132 with App.tsx 171-177: the fetch answers with the
\* bytes, generateVideo returns the object url and the handler stores it
FetchSucceeds(j) ==
  /\ jobs[j].pc = "fetching"
  /\ LET urls == CreateObjectURL(objectUrls, "video",
                                 StoredAt(FetchUrl(jobs[j].operation)), j)
         call == [jobs[j] EXCEPT !.pc = "resolved",
                                 !.outstanding = @ - 1,
                                 !.url = Len(urls)]
     IN /\ jobs' = [jobs EXCEPT ![j] = Finished(call)]
        /\ settled' = Settled(j, call, remote[j])
        /\ download' = NoDownload
        /\ HandlerThen(jobs[j].owner, Len(urls), urls)
  /\ RemoteAfter(j, remote[j])
  /\ UNCHANGED <<activeTab, instance, clientVars>>

(***************************************************************************)
(* Calls of generateImage and editImage                                    *)
(***************************************************************************)
\* geminiService.ts 10-20: generateImage is called and issues its request
GenerateImageCall(p, ratio) ==
  /\ imageCall.pc # "pending"
  /\ imageCall' = IssuedCall(p, ratio)
  /\ UNCHANGED <<videoVars, editCall, tabVars>>

\* geminiService.ts 12-30: the request is answered
GenerateImageResponds(response) ==
  /\ imageCall.pc = "pending"
  /\ imageCall' = ImageCallAnswered(imageCall, response)
  /\ UNCHANGED <<videoVars, editCall, tabVars>>

\* geminiService.ts 12 with 27-30: the request throws
GenerateImageThrows(fault) ==
  /\ imageCall.pc = "pending"
  /\ imageCall' = ImageCallFaulted(imageCall, fault)
  /\ UNCHANGED <<videoVars, editCall, tabVars>>

\* geminiService.ts 33-57: editImage is called and issues its request
EditImageCall(p, mimeType) ==
  /\ editCall.pc # "pending"
  /\ editCall' = IssuedCall(p, mimeType)
  /\ UNCHANGED <<videoVars, imageCall, tabVars>>

\* geminiService.ts 39-67: the request is answered
EditImageResponds(response) ==
  /\ editCall.pc = "pending"
  /\ editCall' = EditCallAnswered(editCall, response)
  /\ UNCHANGED <<videoVars, imageCall, tabVars>>

\* geminiService.ts 39 with 64-67: the request throws
EditImageThrows(fault) ==
  /\ editCall.pc = "pending"
  /\ editCall' = EditCallFaulted(editCall, fault)
  /\ UNCHANGED <<videoVars, imageCall, tabVars>>

(***************************************************************************)
(* GenerateTab (part_000)                                                  *)
(***************************************************************************)
\* the text of a character sequence, as the string the service is called with
RECURSIVE Join(_)
Join(s) == IF s = <<>> THEN "" ELSE Head(s) \o Join(Tail(s))

GeneratedImageName == <<"g","e","n","e","r","a","t","e","d","-","i","m","a","g","e">>

\* part_000 84: the disabled attribute of the generate button
GenerateTabDisabled == generateTab.isLoading \/ Trim(generateTab.prompt) = <<>>

\* part_000 55 with 58: typing in the prompt box, disabled while loading
GenerateTabSetPrompt(p) ==
  /\ activeTab = "generate"
  /\ ~generateTab.isLoading
  /\ p # generateTab.prompt
  /\ generateTab' = [generateTab EXCEPT !.prompt = p]
  /\ Quiet
  /\ UNCHANGED <<backgroundVars, imageCall, editCall, editTab>>

\* part_000 69 with 71: the aspect ratio select, disabled while loading
SetAspectRatio(ratio) ==
  /\ activeTab = "generate"
  /\ ~generateTab.isLoading
  /\ ratio # generateTab.aspectRatio
  /\ generateTab' = [generateTab EXCEPT !.aspectRatio = ratio]
  /\ Quiet
  /\ UNCHANGED <<backgroundVars, imageCall, editCall, editTab>>

\* part_000 15-25: handleGenerate up to its await of generateImage
GenerateTabHandleGenerate ==
  /\ activeTab = "generate"
  /\ IF Trim(generateTab.prompt) = <<>>
     THEN /\ generateTab' = [generateTab EXCEPT !.error = "Please enter a prompt."]
          /\ UNCHANGED imageCall
     ELSE /\ generateTab' = [generateTab EXCEPT !.isLoading = TRUE,
                                                !.error = NULL,
                                                !.generatedImage = NULL]
          /\ imageCall' = IssuedCall(Join(generateTab.prompt), generateTab.aspectRatio)
  /\ Quiet
  /\ UNCHANGED <<backgroundVars, editCall, editTab>>

\* part_000 83-84: a click on the generate button
GenerateTabClickGenerate == ~GenerateTabDisabled /\ GenerateTabHandleGenerate

\* handleGenerate called while the panel is not loading, whatever the prompt
GenerateTabInvokeGenerate == ~generateTab.isLoading /\ GenerateTabHandleGenerate

\* part_000 26-31: the rest of handleGenerate, after generateImage ended
GenerateTabSettle(tab, outcome) ==
  IF outcome.kind = "return"
  THEN [tab EXCEPT !.generatedImage = "data:image/png;base64," \o ToJSString(outcome.value),
                   !.isLoading = FALSE]
  ELSE [tab EXCEPT !.error = IF outcome.error.message # "" THEN outcome.error.message
                             ELSE "An unexpected error occurred.",
                   !.isLoading = FALSE]

\* geminiService.ts 12-30 with part_000 26-31: the request of the panel's
\* generateImage call is answered
GenerateTabResponds(response) ==
  /\ activeTab = "generate"
  /\ generateTab.isLoading
  /\ imageCall.pc = "pending"
  /\ imageCall' = ImageCallAnswered(imageCall, response)
  /\ generateTab' = GenerateTabSettle(generateTab, imageCall'.outcome)
  /\ Quiet
  /\ UNCHANGED <<backgroundVars, editCall, editTab>>

\* geminiService.ts 12, 27-30 with part_000 27-31: the request throws
GenerateTabThrows(fault) ==
  /\ activeTab = "generate"
  /\ generateTab.isLoading
  /\ imageCall.pc = "pending"
  /\ imageCall' = ImageCallFaulted(imageCall, fault)
  /\ generateTab' = GenerateTabSettle(generateTab, imageCall'.outcome)
  /\ Quiet
  /\ UNCHANGED <<backgroundVars, editCall, editTab>>

\* part_000 34-43 with 113-122: the download button, shown with the image
GenerateTabHandleDownload ==
  /\ activeTab = "generate"
  /\ ~generateTab.isLoading
  /\ generateTab.generatedImage # NULL
  /\ download' = [href |-> 0, uri |-> generateTab.generatedImage,
                  name |-> FileName(generateTab.prompt, GeneratedImageName)
                             \o <<".", "p", "n", "g">>]
  /\ settled' = NoSettled
  /\ UNCHANGED <<backgroundVars, clientVars>>

(***************************************************************************)
(* EditTab (App.tsx 296-479)                                               *)
(***************************************************************************)
\* App.tsx 451: the disabled attribute of the edit button
EditDisabled ==
  editTab.isLoading \/ editTab.file = NoFile \/ Trim(editTab.prompt) = <<>>

\* App.tsx 441 with 444: typing in the prompt box, disabled while loading
EditTabSetPrompt(p) ==
  /\ activeTab = "edit"
  /\ ~editTab.isLoading
  /\ p # editTab.prompt
  /\ editTab' = [editTab EXCEPT !.prompt = p]
  /\ Quiet
  /\ UNCHANGED <<backgroundVars, imageCall, editCall, generateTab>>

\* App.tsx 304-316 with 419: the file input, disabled while loading; the
\* preview url is never revoked and is kept as the type of the file it shows
EditTabHandleFileChange(type) ==
  /\ activeTab = "edit"
  /\ ~editTab.isLoading
  /\ editTab' = IF type \notin AcceptedTypes
                THEN [editTab EXCEPT
                        !.error = "Please select a valid image file (JPEG, PNG, WebP)."]
                ELSE [editTab EXCEPT !.error = NULL,
                                     !.file = type,
                                     !.preview = type,
                                     !.resultParts = NoParts]
  /\ Quiet
  /\ UNCHANGED <<backgroundVars, imageCall, editCall, generateTab>>

HandleEditPromptOnly ==
  /\ activeTab = "edit"
  /\ IF Trim(editTab.prompt) = <<>>
     THEN /\ editTab' = [editTab EXCEPT
                           !.error = "Please provide both an image and an editing prompt."]
          /\ UNCHANGED editCall
     ELSE /\ editTab' = [editTab EXCEPT !.isLoading = TRUE,
                                        !.error = NULL,
                                        !.resultParts = NoParts,
                                        !.pc = "encoding"]
          /\ editCall' = IdleCall
  /\ Quiet
  /\ UNCHANGED <<backgroundVars, imageCall, generateTab>>

\* App.tsx 318-328: handleEdit up to its await of fileToBase64
HandleEdit ==
  /\ activeTab = "edit"
  /\ IF editTab.file = NoFile \/ Trim(editTab.prompt) = <<>>
     THEN /\ editTab' = [editTab EXCEPT
                           !.error = "Please provide both an image and an editing prompt."]
          /\ UNCHANGED editCall
     ELSE /\ editTab' = [editTab EXCEPT !.isLoading = TRUE,
                                        !.error = NULL,
                                        !.resultParts = NoParts,
                                        !.pc = "encoding"]
          /\ editCall' = IdleCall
  /\ Quiet
  /\ UNCHANGED <<backgroundVars, imageCall, generateTab>>

\* App.tsx 450-451: a click on the edit button
ClickEdit == ~EditDisabled /\ HandleEdit

\* handleEdit called while the panel is not loading, whatever its inputs
InvokeHandleEdit == ~editTab.isLoading /\ HandleEdit

\* App.tsx 328-329: fileToBase64 resolved, editImage is called with the
\* type of the selected file and issues its request
EditEncodeDone ==
  /\ activeTab = "edit"
  /\ editTab.pc = "encoding"
  /\ editTab' = [editTab EXCEPT !.pc = "calling"]
  /\ editCall' = IssuedCall(Join(editTab.prompt), editTab.file)
  /\ Quiet
  /\ UNCHANGED <<backgroundVars, imageCall, generateTab>>

\* App.tsx 330-335: the rest of handleEdit, after its try block ended
EditTabSettle(tab, outcome) ==
  IF outcome.kind = "return"
  THEN [tab EXCEPT !.resultParts = outcome.value, !.isLoading = FALSE, !.pc = "idle"]
  ELSE [tab EXCEPT !.error = IF outcome.error.message # "" THEN outcome.error.message
                             ELSE "An unexpected error occurred.",
                   !.isLoading = FALSE,
                   !.pc = "idle"]

\* App.tsx 328 with 331-335: fileToBase64 rejected with a ReadError
EditEncodeFails ==
  /\ activeTab = "edit"
  /\ editTab.pc = "encoding"
  /\ editTab' = EditTabSettle(editTab, Throw(ReadError))
  /\ Quiet
  /\ UNCHANGED <<backgroundVars, imageCall, editCall, generateTab>>

\* geminiService.ts 39-67 with App.tsx 330-335: the request of the panel's
\* editImage call is answered
EditTabResponds(response) ==
  /\ activeTab = "edit"
  /\ editTab.pc = "calling"
  /\ editCall.pc = "pending"
  /\ editCall' = EditCallAnswered(editCall, response)
  /\ editTab' = EditTabSettle(editTab, editCall'.outcome)
  /\ Quiet
  /\ UNCHANGED <<backgroundVars, imageCall, generateTab>>

\* geminiService.ts 39, 64-67 with App.tsx 331-335: the request throws
EditTabThrows(fault) ==
  /\ activeTab = "edit"
  /\ editTab.pc = "calling"
  /\ editCall.pc = "pending"
  /\ editCall' = EditCallFaulted(editCall, fault)
  /\ editTab' = EditTabSettle(editTab, editCall'.outcome)
  /\ Quiet
  /\ UNCHANGED <<backgroundVars, imageCall, generateTab>>

\* App.tsx 343: mimeType.split('/')[1] || 'png', over the types of the model
Extension(mimeType) ==
  CASE mimeType = "image/png" -> "png"
    [] mimeType = "image/jpeg" -> "jpeg"
    [] mimeType = "image/webp" -> "webp"
    [] OTHER -> "png"

\* App.tsx 338-348 with 387-394: the download button of the image part at index
EditTabHandleDownload(index) ==
  /\ activeTab = "edit"
  /\ ~editTab.isLoading
  /\ editTab.resultParts.t = "array"
  /\ index < Length(editTab.resultParts)
  /\ LET inlineData == Get(Index(editTab.resultParts, index), "inlineData")
     IN /\ Truthy(inlineData)
        /\ download' =
             [href |-> 0,
              uri |-> "data:" \o Get(inlineData, "mimeType").s \o ";base64,"
                        \o Get(inlineData, "data").s,
              name |-> <<"edited-image-" \o ToString(index + 1) \o "."
                           \o Extension(Get(inlineData, "mimeType").s)>>]
  /\ settled' = NoSettled
  /\ UNCHANGED <<backgroundVars, clientVars>>

(***************************************************************************)
(* Specifications                                                          *)
(***************************************************************************)
Init ==
  /\ activeTab = "generate"
  /\ instance = 0
  /\ prompt = <<>>
  /\ file = NoFile
  /\ preview = 0
  /\ videoUrl = 0
  /\ isLoading = FALSE
  /\ error = NULL
  /\ effect = [videoUrl |-> 0, preview |-> 0]
  /\ download = NoDownload
  /\ jobs = <<>>
  /\ remote = <<>>
  /\ settled = NoSettled
  /\ objectUrls = <<>>
  /\ imageCall = IdleCall
  /\ editCall = IdleCall
  /\ generateTab = NewGenerateTab
  /\ editTab = NewEditTab

\* the answers the remote gives in the runs of the App: pending at the
\* submit, then failed or finished
AppBodies ==
  { [error |-> Obj(<<Field("message", Str("boom"))>>), response |-> Undefined],
    [error |-> Undefined,
     response |-> Obj(<<Field("generatedVideos",
                              Arr(<<VideoOf("https://files/X?alt=media")>>))>>)] }
AppHandles(j) ==
  { op \in NextHandles(j) :
      IF op.done THEN [error |-> op.error, response |-> op.response] \in AppBodies
      ELSE remote[j].sent = 0 }
AppFaults == { f \in RawFaults : f.isError }
AppStatusTexts == {"Forbidden"}

\* the inputs and answers of the GenerateTab and the EditTab in the runs of
\* the App
AppAspectRatios == {"1:1", "16:9"}
AppImageResponses ==
  { Obj(<<Field("generatedImages", Arr(<<>>))>>),
    Obj(<<Field("generatedImages", Arr(<<GeneratedImage(Obj(<<Field("gcsUri", Str("gs://b/o"))>>))>>))>>),
    Obj(<<Field("generatedImages", Arr(<<GeneratedImage(ImageBytes("iVBORw0KGgo="))>>))>>) }
AppEditResponses ==
  { Obj(<<>>),
    Obj(<<Field("candidates", Arr(<<Candidate(Content(Arr(<<>>)))>>))>>),
    Obj(<<Field("candidates",
                Arr(<<Candidate(Content(Arr(<<InlinePart("image/png", "iVBORw0KGgo="),
                                              TextPart("done")>>)))>>))>>) }

\* the steps of the generateVideo calls and of the handlers that await them
JobSteps ==
  \/ \E j \in 1..Len(jobs) : EncodeDone(j)
  \/ \E j \in 1..Len(jobs) : EncodeFails(j)
  \/ \E j \in 1..Len(jobs) : \E op \in AppHandles(j) : SubmitResponse(j, op)
  \/ \E j \in 1..Len(jobs) : TimerFires(j)
  \/ \E j \in 1..Len(jobs) : \E op \in AppHandles(j) : PollResponse(j, op)
  \/ \E j \in 1..Len(jobs) : \E fault \in AppFaults : RemoteThrows(j, fault)
  \/ \E j \in 1..Len(jobs) : \E statusText \in AppStatusTexts : FetchFails(j, statusText)
  \/ \E j \in 1..Len(jobs) : FetchSucceeds(j)

\* the steps of the generateImage and editImage calls of the panels
CallSteps ==
  \/ \E response \in AppImageResponses : GenerateTabResponds(response)
  \/ \E fault \in AppFaults : GenerateTabThrows(fault)
  \/ EditEncodeDone
  \/ EditEncodeFails
  \/ \E response \in AppEditResponses : EditTabResponds(response)
  \/ \E fault \in AppFaults : EditTabThrows(fault)

\* the jobs of a VideoTab that was left go on behind the GenerateTab and the
\* EditTab and share no state with them; in the runs of the model the user
\* waits for these jobs to end before using the controls of the two panels
Calm == \A j \in 1..Len(jobs) : ~InFlight(jobs[j])

\* the controls of the GenerateTab and the EditTab
PanelControls ==
  \/ \E p \in Prompts : Calm /\ GenerateTabSetPrompt(p)
  \/ \E ratio \in AppAspectRatios : Calm /\ SetAspectRatio(ratio)
  \/ Calm /\ GenerateTabClickGenerate
  \/ Calm /\ GenerateTabHandleDownload
  \/ \E p \in Prompts : Calm /\ EditTabSetPrompt(p)
  \/ \E type \in FileTypes : Calm /\ EditTabHandleFileChange(type)
  \/ Calm /\ ClickEdit
  \/ \E index \in 0..1 : Calm /\ EditTabHandleDownload(index)

\* the handlers of the GenerateTab and the EditTab called directly
PanelInvocations ==
  \/ \E p \in Prompts : Calm /\ GenerateTabSetPrompt(p)
  \/ Calm /\ GenerateTabInvokeGenerate
  \/ \E p \in Prompts : Calm /\ EditTabSetPrompt(p)
  \/ \E type \in FileTypes : Calm /\ EditTabHandleFileChange(type)
  \/ Calm /\ InvokeHandleEdit

\* the App with its three panels and the calls they make
Next ==
  \/ \E tab \in Tabs : SetActiveTab(tab)
  \/ \E p \in Prompts : SetPrompt(p)
  \/ \E type \in FileTypes : HandleFileChange(type)
  \/ HandleClearImage
  \/ ClickGenerate
  \/ HandleDownload
  \/ JobSteps
  \/ PanelControls
  \/ CallSteps

Spec == Init /\ [][Next]_vars

\* the answers of a remote that keeps a job pending for up to MaxPolls
\* answers before it fails or finishes it
LiveHandles(j) ==
  { op \in NextHandles(j) :
      op.done => [error |-> op.error, response |-> op.response] \in AppBodies }

\* the steps of a job started without a file that the user takes no part
\* in: a remote call is answered or throws, the timer of a wait fires
JobStep(j) ==
  /\ j <= Len(jobs)
  /\ \/ \E op \in LiveHandles(j) : SubmitResponse(j, op)
     \/ TimerFires(j)
     \/ \E op \in LiveHandles(j) : PollResponse(j, op)
     \/ \E fault \in AppFaults : RemoteThrows(j, fault)
     \/ \E statusText \in AppStatusTexts : FetchFails(j, statusText)
     \/ FetchSucceeds(j)

\* the VideoTab used without a file and its jobs, every timer firing and
\* every call of the remote ending
NextLive ==
  \/ \E tab \in Tabs : SetActiveTab(tab)
  \/ \E p \in Prompts : SetPrompt(p)
  \/ ClickGenerate
  \/ \E j \in 1..MaxJobs : JobStep(j)

SpecLive ==
  /\ Init
  /\ [][NextLive]_vars
  /\ \A j \in 1..MaxJobs : WF_vars(JobStep(j))

\* the handlers of the three panels called directly, as a caller that waits
\* for each of them to end would, whatever the state of the inputs
NextHandlers ==
  \/ \E tab \in Tabs : SetActiveTab(tab)
  \/ \E p \in Prompts : SetPrompt(p)
  \/ \E type \in FileTypes : HandleFileChange(type)
  \/ InvokeHandleGenerate
  \/ JobSteps
  \/ PanelInvocations
  \/ CallSteps

SpecHandlers == Init /\ [][NextHandlers]_vars

\* generateVideo called on its own, outside any view (owner 0), by a caller
\* that awaits each call: the request is issued at once (geminiService.ts 84-100)
CallGenerateVideo(hasImage) ==
  /\ Len(jobs) < MaxJobs
  /\ \A j \in 1..Len(jobs) : ~InFlight(jobs[j])
  /\ jobs' = Append(jobs, [NewJob(0, hasImage) EXCEPT
                             !.pc = "submitting",
                             !.mimeType = IF hasImage THEN "image/png" ELSE NoFile,
                             !.outstanding = 1])
  /\ remote' = Append(remote, NewRemote)
  /\ Quiet
  /\ UNCHANGED <<activeTab, instance, panelVars, objectUrls, clientVars>>

\* calls of generateVideo against a remote that answers in every shape
NextVideo ==
  \/ \E hasImage \in BOOLEAN : CallGenerateVideo(hasImage)
  \/ \E j \in 1..Len(jobs) : \E op \in NextHandles(j) : SubmitResponse(j, op)
  \/ \E j \in 1..Len(jobs) : TimerFires(j)
  \/ \E j \in 1..Len(jobs) : \E op \in NextHandles(j) : PollResponse(j, op)
  \/ \E j \in 1..Len(jobs) : \E fault \in RawFaults : RemoteThrows(j, fault)
  \/ \E j \in 1..Len(jobs) : \E statusText \in StatusTexts : FetchFails(j, statusText)
  \/ \E j \in 1..Len(jobs) : FetchSucceeds(j)

SpecVideo == Init /\ [][NextVideo]_vars

\* pieces of prompt text: white space, letters of both cases, punctuation, a
\* word of 26 letters, and the prompt "  A Bold CAT!! "
Pieces ==
  { <<" ">>, <<"\t", "\n">>, <<"A">>, <<"b", "!">>,
    <<"Q","u","i","c","k","B","r","o","w","n","F","o","x","J","u","m","p","s",
      "O","v","e","r","L","a","z","y">>,
    <<" "," ","A"," ","B","o","l","d"," ","C","A","T","!","!"," ">> }

\* the texts made of at most n pieces
RECURSIVE TextsOf(_)
TextsOf(n) ==
  IF n = 0 THEN { <<>> }
  ELSE LET shorter == TextsOf(n - 1)
       IN shorter \cup { t \o piece : t \in shorter, piece \in Pieces }

\* App.tsx 207 and part_000 55: a text is typed into an empty prompt box
TypeText(t) ==
  /\ prompt = <<>>
  /\ t # <<>>
  /\ prompt' = t
  /\ Quiet
  /\ UNCHANGED <<activeTab, instance, file, preview, videoUrl, isLoading, error,
                 effect, jobs, remote, objectUrls, clientVars>>

\* the prompt box is emptied
ClearText ==
  /\ prompt # <<>>
  /\ prompt' = <<>>
  /\ Quiet
  /\ UNCHANGED <<activeTab, instance, file, preview, videoUrl, isLoading, error,
                 effect, jobs, remote, objectUrls, clientVars>>

\* App.tsx 186 and part_000 38: the file name is derived from the prompt
DeriveFileName(placeholder) ==
  /\ download' = [href |-> 0, uri |-> "", name |-> FileName(prompt, placeholder)]
  /\ settled' = NoSettled
  /\ UNCHANGED <<activeTab, instance, panelVars, jobs, remote, objectUrls, clientVars>>

\* the derivation of the download file name, over the texts of the model
NextSlug ==
  \/ \E t \in TextsOf(MaxPieces) : TypeText(t)
  \/ ClearText
  \/ \E placeholder \in {GeneratedVideo, GeneratedImageName} : DeriveFileName(placeholder)

SpecSlug == Init /\ [][NextSlug]_vars

\* calls of the two single-round-trip operations
NextClient ==
  \/ \E p \in ImagePrompts, ratio \in AspectRatios : GenerateImageCall(p, ratio)
  \/ \E response \in ImageResponses : GenerateImageResponds(response)
  \/ \E fault \in RawFaults : GenerateImageThrows(fault)
  \/ \E p \in EditPrompts, mimeType \in EditMimeTypes : EditImageCall(p, mimeType)
  \/ \E response \in EditResponses : EditImageResponds(response)
  \/ \E fault \in RawFaults : EditImageThrows(fault)

SpecClient == Init /\ [][NextClient]_vars

(***************************************************************************)
(* Properties                                                              *)
(***************************************************************************)
\* the first generated-video uri of an operation handle
FirstVideoUri(op) ==
  Get(Get(Get(op.response, "generatedVideos").fields[1].v, "video"), "uri").s

\* C1: a generateVideo call that returns has issued exactly as many polls as
\* the remote gave done=false answers, has completed one wait per poll, and
\* returns an object url over the bytes stored at the first video uri of the
\* terminal answer; at every moment a call has waited once per poll issued
C1_PollsMatchPendingAnswers ==
  /\ \A j \in 1..Len(jobs) : jobs[j].waits = jobs[j].polls
  /\ settled.call.pc = "resolved" =>
       /\ settled.call.polls = settled.remote.falses
       /\ settled.call.waits = settled.remote.falses
       /\ settled.remote.sent = settled.remote.falses + 1
       /\ settled.remote.last.done
       /\ objectUrls[settled.call.url].content =
            StoredAt(FirstVideoUri(settled.remote.last) \o "&key=" \o ApiKey)

C1_Witness ==
  /\ settled.call.pc = "resolved"
  /\ settled.call.polls = 2
  /\ settled.remote.falses = 2

\* C2: a call has at most one remote request outstanding, and a poll in
\* flight carries the handle of the last answer the remote gave to the call
C2_PollsSequential ==
  \A j \in 1..Len(jobs) :
    /\ jobs[j].outstanding \in {0, 1}
    /\ jobs[j].pc \in {"submitting", "polling", "fetching"} <=> jobs[j].outstanding = 1
    /\ jobs[j].pc = "polling" =>
         /\ jobs[j].carried = remote[j].last.ver
         /\ jobs[j].carried = remote[j].sent - 1

C2_Witness ==
  \E j \in 1..Len(jobs) : jobs[j].pc = "polling" /\ jobs[j].carried = 1

\* C3: a call whose terminal answer has an error field throws an Error whose
\* message is the error's string message, the error itself when it is a
\* string, and else the JSON text of the error, never "[object Object]"
C3_ErrorMessageFromError ==
  (settled.job # 0 /\ settled.remote.last.done
     /\ settled.remote.last.error.t # "undefined" /\ settled.call.fault = "") =>
    LET err == settled.remote.last.error
        msg == settled.call.message
    IN /\ settled.call.pc = "rejected"
       /\ settled.call.typed
       /\ msg \notin {"", "[object Object]", "undefined"}
       /\ err = Obj(<<Field("message", Str("boom"))>>) => msg = "boom"
       /\ err = Obj(<<Field("code", Num(3)), Field("message", Str("boom"))>>) => msg = "boom"
       /\ err = Str("boom") => msg = "boom"
       /\ err = Obj(<<Field("weird", Num(1))>>) => msg = "{\"weird\":1}"
       /\ err = Obj(<<Field("message", Str(""))>>) => msg = "{\"message\":\"\"}"
       /\ err = Obj(<<Field("message", Obj(<<Field("detail", Str("boom"))>>))>>) =>
            msg = "{\"message\":{\"detail\":\"boom\"}}"

C3_Witness ==
  /\ settled.call.pc = "rejected"
  /\ settled.remote.last.error = Obj(<<Field("weird", Num(1))>>)
  /\ settled.call.message = "{\"weird\":1}"

\* the video urls created so far
Videos == { u \in 1..Len(objectUrls) : objectUrls[u].kind = "video" }

\* C4: no video object url is released more than once
C4_VideoReleasedAtMostOnce ==
  \A u \in Videos : objectUrls[u].revoked <= 1

\* C5: once no job is in flight, every video object url that is not the
\* result of a mounted VideoTab has been released
C5_NoVideoLeak ==
  (\A j \in 1..Len(jobs) : ~InFlight(jobs[j])) =>
    \A u \in Videos :
      (~Mounted(jobs[objectUrls[u].job].owner) \/ videoUrl # u) =>
        objectUrls[u].revoked >= 1

\* C6: the object url held as the result of the VideoTab has not been released
C6_HeldVideoNotReleased ==
  videoUrl # 0 => objectUrls[videoUrl].revoked = 0

\* the jobs of VideoTab instance i that are in flight
InFlightOf(i) == { j \in 1..Len(jobs) : jobs[j].owner = i /\ InFlight(jobs[j]) }

\* C7: every VideoTab instance has at most one job in flight, and the
\* mounted instance is loading while it has one
C7_OneJobInFlight ==
  \A i \in 1..instance :
    /\ Cardinality(InFlightOf(i)) <= 1
    /\ (Mounted(i) /\ InFlightOf(i) # {}) => isLoading

C7_Witness ==
  \E j \in 1..Len(jobs), k \in 1..Len(jobs) :
    /\ j < k
    /\ jobs[j].owner = jobs[k].owner
    /\ ~InFlight(jobs[j])
    /\ InFlight(jobs[k])

\* C8: when a remote call of generateVideo throws a fault, the Error the
\* caller receives is logged, typed and does not carry the fault's message
C8_VideoFaultNormalized ==
  settled.call.fault # "" =>
    /\ settled.call.logged >= 1
    /\ settled.call.typed
    /\ settled.call.message \notin RawFaultMessages

\* C9: a generateImage call that returns, returns a non-empty string
C9_ImagePayloadNonEmpty ==
  (imageCall.pc = "done" /\ imageCall.outcome.kind = "return") =>
    /\ imageCall.outcome.value.t = "string"
    /\ imageCall.outcome.value.s # ""

\* the content parts of the first candidate of an edit response
FirstParts(response) ==
  Get(Get(Index(Get(response, "candidates"), 0), "content"), "parts")

\* C10: an editImage call fails when the response has no content parts and
\* never returns a sequence of zero parts
C10_EditNeverEmpty ==
  (editCall.pc = "done" /\ editCall.fault = "") =>
    /\ (FirstParts(editCall.response).t = "undefined"
          \/ Length(FirstParts(editCall.response)) = 0) =>
         editCall.outcome.kind = "throw"
    /\ editCall.outcome.kind = "return" => Length(editCall.outcome.value) > 0

\* the response of the image-synthesis endpoint holds no image
ZeroImages(response) ==
  ~Truthy(Get(response, "generatedImages")) \/ Length(Get(response, "generatedImages")) = 0

\* the messages generateImage fails with when its remote call throws
UpstreamImageMessages ==
  { GenerateImageCatch(Throw(fault)).error.message : fault \in RawFaults }

\* C11: a generateImage call whose response holds zero images fails, and the
\* message of its failure is not one that a fault of the remote call gives
C11_ImageFailureKinds ==
  (imageCall.pc = "done" /\ imageCall.fault = "" /\ ZeroImages(imageCall.response)) =>
    /\ imageCall.outcome.kind = "throw"
    /\ imageCall.outcome.error.message \notin UpstreamImageMessages

\* C12: an editImage call whose response has content parts in its first
\* candidate returns as many parts as the response has, each at its index
C12_EditPartsPreserved ==
  (editCall.pc = "done" /\ editCall.fault = "" /\ Truthy(FirstParts(editCall.response))) =>
    LET parts == FirstParts(editCall.response)
        value == editCall.outcome.value
    IN /\ editCall.outcome.kind = "return"
       /\ value.t = "array"
       /\ Length(value) = Length(parts)
       /\ \A i \in 0..(Length(parts) - 1) : Index(value, i) = Index(parts, i)

C12_Witness ==
  /\ editCall.pc = "done"
  /\ editCall.outcome.kind = "return"
  /\ Length(editCall.outcome.value) = 3
  /\ Index(editCall.outcome.value, 0) = TextPart("first")
  /\ Index(editCall.outcome.value, 2) = TextPart("last")

\* the terminal answer op carries no uri of a first generated video
NoVideoReference(op) ==
  \/ op.response.t = "undefined"
  \/ Get(op.response, "generatedVideos").t = "undefined"
  \/ Length(Get(op.response, "generatedVideos")) = 0
  \/ Get(Get(Index(Get(op.response, "generatedVideos"), 0), "video"), "uri").t = "undefined"

\* the generateVideo call that ended in the last step made no object url
NoHandleCreated ==
  /\ settled.call.url = 0
  /\ \A u \in Videos : objectUrls[u].job # settled.job

\* C13: a generateVideo call whose terminal answer has no error and no video
\* reference throws the missing-link Error, having issued no binary fetch
\* and made no object url
C13_MissingResult ==
  (settled.job # 0 /\ settled.remote.last.done
     /\ settled.remote.last.error.t = "undefined"
     /\ NoVideoReference(settled.remote.last)) =>
    /\ settled.call.pc = "rejected"
    /\ settled.call.typed
    /\ settled.call.message = "Video generation completed, but no download link was found."
    /\ settled.call.fetches = 0
    /\ NoHandleCreated

C13_Witness ==
  /\ settled.call.pc = "rejected"
  /\ settled.call.polls = 1
  /\ settled.remote.last.error.t = "undefined"
  /\ settled.remote.last.response = Obj(<<Field("generatedVideos", Arr(<<>>))>>)

\* C14: a generateVideo call whose binary fetch answers with a non-success
\* status throws an Error whose message ends with the status text of that
\* answer, after a finished job with a video reference, and makes no object url
C14_FetchError ==
  settled.call.status # "" =>
    /\ settled.call.pc = "rejected"
    /\ settled.call.typed
    /\ settled.call.message = "Failed to fetch video: " \o settled.call.status
    /\ settled.call.fetches = 1
    /\ settled.remote.last.done
    /\ ~NoVideoReference(settled.remote.last)
    /\ NoHandleCreated

C14_Witness ==
  /\ settled.call.pc = "rejected"
  /\ settled.call.status = "Not Found"
  /\ settled.call.message = "Failed to fetch video: Not Found"

\* the text p has no character other than white space
Blank(p) == \A i \in 1..Len(p) : p[i] \in {" ", "\t", "\n", "\r"}

ImageTypes == {"image/jpeg", "image/png", "image/webp"}

\* C16: a file selection of the VideoTab or the EditTab with a type other
\* than an image type sets the validation message and leaves the selected
\* file, the jobs and the calls as they were; a selection with an image type
\* makes that file the selected one and clears the message; every file that
\* a job encodes or a call uploads has an image type
C16_FileValidation ==
  [][ /\ \A type \in FileTypes :
           /\ HandleFileChange(type) =>
                IF type \in ImageTypes
                THEN file' = type /\ error' = NULL /\ preview' # 0
                ELSE /\ error' = "Please select a valid image file (JPEG, PNG, WebP)."
                     /\ file' = file
                     /\ preview' = preview
                     /\ jobs' = jobs
                     /\ objectUrls' = objectUrls
           /\ EditTabHandleFileChange(type) =>
                IF type \in ImageTypes
                THEN editTab'.file = type /\ editTab'.error = NULL /\ editTab'.preview = type
                ELSE /\ editTab'.error = "Please select a valid image file (JPEG, PNG, WebP)."
                     /\ editTab'.file = editTab.file
                     /\ editTab'.preview = editTab.preview
                     /\ editTab'.pc = editTab.pc
                     /\ editCall' = editCall
      /\ \A j \in 1..Len(jobs') :
           /\ jobs'[j].hasImage => jobs'[j].mimeType \in ImageTypes
           /\ ~jobs'[j].hasImage => jobs'[j].mimeType = NoFile
      /\ editTab'.pc = "encoding" => editTab'.file \in ImageTypes
      /\ editCall'.pc = "pending" => editCall'.option \in ImageTypes
    ]_vars

C16_Witness ==
  /\ activeTab = "video"
  /\ file = "image/png"
  /\ preview # 0
  /\ error = "Please select a valid image file (JPEG, PNG, WebP)."

\* the VideoTab on screen has a handleGenerate that has not ended
VideoBusy == \E j \in 1..Len(jobs) : jobs[j].owner = instance /\ InFlight(jobs[j])

\* C17: a panel is loading exactly while its handler has not ended, and a
\* loading panel has neither result nor error; in the step in which the
\* operation of a panel on screen returns, the panel has the result and no
\* error, and in the step in which it throws, the panel has a message that
\* is not empty and no result
C17_LoadingThenResultOrError ==
  [][ /\ activeTab' = "video" =>
           /\ isLoading' <=> VideoBusy'
           /\ isLoading' => (videoUrl' = 0 /\ error' = NULL)
      /\ (settled'.job # 0 /\ activeTab' = "video" /\ settled'.call.owner = instance') =>
           /\ ~isLoading'
           /\ settled'.call.pc = "resolved" =>
                (videoUrl' = settled'.call.url /\ videoUrl' # 0 /\ error' = NULL)
           /\ settled'.call.pc = "rejected" =>
                (videoUrl' = 0 /\ error' = settled'.call.message /\ error' # "")
      /\ generateTab'.isLoading <=> imageCall'.pc = "pending"
      /\ generateTab'.isLoading =>
           (generateTab'.generatedImage = NULL /\ generateTab'.error = NULL)
      /\ (imageCall.pc = "pending" /\ imageCall'.pc = "done") =>
           /\ imageCall'.outcome.kind = "return" =>
                (generateTab'.generatedImage # NULL /\ generateTab'.error = NULL)
           /\ imageCall'.outcome.kind = "throw" =>
                /\ generateTab'.generatedImage = NULL
                /\ generateTab'.error = imageCall'.outcome.error.message
                /\ generateTab'.error # ""
      /\ editTab'.isLoading <=> editTab'.pc \in {"encoding", "calling"}
      /\ editTab'.pc = "calling" <=> editCall'.pc = "pending"
      /\ editTab'.isLoading => (editTab'.resultParts = NoParts /\ editTab'.error = NULL)
      /\ (editCall.pc = "pending" /\ editCall'.pc = "done") =>
           /\ editCall'.outcome.kind = "return" =>
                (editTab'.resultParts = editCall'.outcome.value /\ editTab'.error = NULL)
           /\ editCall'.outcome.kind = "throw" =>
                /\ editTab'.resultParts = NoParts
                /\ editTab'.error = editCall'.outcome.error.message
                /\ editTab'.error # ""
    ]_vars

C17_Witness ==
  /\ activeTab = "video"
  /\ settled.job # 0
  /\ settled.call.owner = instance
  /\ settled.call.pc = "rejected"
  /\ settled.call.polls = 1
  /\ ~isLoading
  /\ error = "boom"

\* the characters of s that are neither white space nor a hyphen
Solid(s) == SelectSeq(s, LAMBDA c : c \notin {" ", "\t", "\n", "\r", "-"})

\* the runs of white space inside s, s having none at either end
RECURSIVE InnerRuns(_)
InnerRuns(s) ==
  IF Len(s) < 2 THEN 0
  ELSE (IF s[1] \notin {" ", "\t", "\n", "\r"} /\ s[2] \in {" ", "\t", "\n", "\r"}
        THEN 1 ELSE 0) + InnerRuns(Tail(s))

\* s is the first Len(s) characters of t
IsPrefix(s, t) == Len(s) <= Len(t) /\ \A i \in 1..Len(s) : s[i] = t[i]

\* the download file name derived in the last step
BaseName == download.name

C19_PollsToCompletion ==
  /\ [][ /\ \A j \in 1..Len(jobs') :
              (InFlight(jobs'[j]) /\ remote'[j].sent > 0 /\ ~remote'[j].last.done) =>
                jobs'[j].pc \in {"waiting", "polling"}
         /\ (settled'.job # 0 /\ settled'.call.fault = "") =>
              /\ settled'.remote.last.done
              /\ settled'.call.polls = settled'.remote.falses
       ]_vars
  /\ \A j \in 1..MaxJobs :
       (Len(jobs) >= j /\ InFlight(jobs[j])) ~> (Len(jobs) >= j /\ ~InFlight(jobs[j]))
  /\ isLoading ~> ~isLoading

C19_Witness ==
  /\ activeTab = "video"
  /\ isLoading
  /\ \E j \in 1..Len(jobs) :
       /\ jobs[j].owner = instance
       /\ jobs[j].pc = "polling"
       /\ jobs[j].polls = MaxPolls
       /\ remote[j].falses = MaxPolls

\* the call of generateImage or editImage made exactly one remote request
\* if it was made at all
OneAttempt(call) ==
  /\ call.pc = "idle" => call.calls = 0
  /\ call.pc \in {"pending", "done"} => call.calls = 1
  /\ call.fault # "" => call.pc = "done" /\ call.outcome.kind = "throw"

\* C20: generateImage and editImage issue one remote request per call, also
\* when it throws; the step in which a submit or poll of generateVideo throws
\* ends the call with that failure, issues no poll and no fetch and makes no
\* object url, and a call that has ended takes no further step
C20_NoRetry ==
  [][ /\ OneAttempt(imageCall')
      /\ OneAttempt(editCall')
      /\ (settled'.job # 0 /\ settled'.call.fault # "") =>
           LET j == settled'.job
           IN /\ InFlight(jobs[j])
              /\ ~InFlight(jobs'[j])
              /\ jobs'[j].outstanding = 0
              /\ settled'.call.pc = "rejected"
              /\ settled'.call.message = settled'.call.fault
              /\ settled'.call.polls = jobs[j].polls
              /\ settled'.call.fetches = jobs[j].fetches
              /\ settled'.call.url = 0
              /\ \A u \in 1..Len(objectUrls') : objectUrls'[u].job # j
      /\ \A j \in 1..Len(jobs) : ~InFlight(jobs[j]) => ~InFlight(jobs'[j])
    ]_vars

C20_Witness ==
  /\ settled.job # 0
  /\ settled.call.fault # ""
  /\ settled.call.fetches = 0
  /\ settled.call.polls > 0
  /\ settled.call.owner = instance
  /\ activeTab = "video"
  /\ error = settled.call.fault

\* C21: the preview object url the VideoTab holds has not been released, and
\* every other preview object url has been released exactly once
C21_PreviewReleasedOnce ==
  \A u \in Previews :
    IF activeTab = "video" /\ preview = u
    THEN objectUrls[u].revoked = 0
    ELSE objectUrls[u].revoked = 1

====
